---- MODULE Spec2Model ----
(***************************************************************************)
(* Cognitive Load Index pipeline of mental-fatigue-propagation:            *)
(*   telemetry file -> process_lap_data -> segment_lap ->                  *)
(*   compute_segment_metrics -> compute_cli -> compute_insights            *)
(* together with the discovery functions of load_data.py.                  *)
(*                                                                         *)
(* Numbers.  pandas works on IEEE doubles.  The model carries exact        *)
(* rationals <<num, den>> (den > 0, lowest terms) and the one non-number   *)
(* the pipeline produces, NaN, as <<0, 0>>.  Where the rounding of a       *)
(* double decides an outcome (the floor division of segment_lap, the       *)
(* square root of std) the rounding is modelled explicitly.                *)
(***************************************************************************)
EXTENDS Integers, Sequences, FiniteSets, TLC

VARIABLES
    df,             \* per-sample table handed to segment_lap
    num_segments,   \* segment count handed to segment_lap
    fl_err,         \* rounding of max_dist / num_segments (see FloorDivide)
    df_segmented,   \* what segment_lap returned or raised
    metrics_df,     \* what compute_segment_metrics returned
    cli_df,         \* what compute_cli returned or raised
    final_df,       \* the per-sample table merged with the fused metrics
    results,        \* what compute_insights returned or raised
    pc,             \* position in the run
    telemetry_file, \* the telemetry source on disk
    request,        \* the load_data / processor call being served
    reply,          \* what that call returned or raised
    session_state   \* st.session_state: what the app keeps between reruns

vars == <<df, num_segments, fl_err, df_segmented, metrics_df, cli_df, final_df,
          results, pc, telemetry_file, request, reply, session_state>>

pipeVars == <<df, num_segments, fl_err, df_segmented, metrics_df, cli_df, final_df,
              results>>
loadVars == <<telemetry_file, request, reply>>
appVars == <<session_state>>

(***************************************************************************)
(* Bounds of the model.                                                    *)
(***************************************************************************)
MaxRows == 4        \* samples in a per-sample table
MaxDist == 3        \* largest lap distance of a sample
MaxSegments == 3    \* largest segment count tried
MaxMetricRows == 3  \* rows of a metrics table drawn directly
MaxWeight == 3      \* size of such a table: sum of its entries, NaNs and id gaps
MaxLines == 2       \* lines of a telemetry file after its header
MaxBrake == 2       \* largest brake pressure of a sample, in units
ChunkRows == 1      \* rows per chunk read (chunk_size, scaled down from 100000)

None == [none |-> TRUE]

(***************************************************************************)
(* Exact arithmetic with NaN.                                              *)
(***************************************************************************)
NaN == <<0, 0>>

IsNaN(x) == x[2] = 0

Abs(n) == IF n < 0 THEN -n ELSE n

RECURSIVE GCD(_, _)
GCD(a, b) == IF b = 0 THEN a ELSE GCD(b, a % b)

\* n/d in lowest terms with a positive denominator; x/0 is not a number.
Rat(n, d) ==
    IF d = 0 THEN NaN
    ELSE LET g == GCD(Abs(n), Abs(d))
             s == IF d < 0 THEN -1 ELSE 1
         IN  <<(s * n) \div g, (s * d) \div g>>

Num(n) == <<n, 1>>

RAdd(x, y) == IF IsNaN(x) \/ IsNaN(y) THEN NaN
              ELSE Rat(x[1] * y[2] + y[1] * x[2], x[2] * y[2])

RSub(x, y) == IF IsNaN(x) \/ IsNaN(y) THEN NaN
              ELSE Rat(x[1] * y[2] - y[1] * x[2], x[2] * y[2])

RMul(x, y) == IF IsNaN(x) \/ IsNaN(y) THEN NaN
              ELSE Rat(x[1] * y[1], x[2] * y[2])

RDiv(x, y) == IF IsNaN(x) \/ IsNaN(y) THEN NaN
              ELSE Rat(x[1] * y[2], x[2] * y[1])

\* Every comparison with NaN is false, as in IEEE arithmetic.
RLt(x, y) == ~IsNaN(x) /\ ~IsNaN(y) /\ x[1] * y[2] < y[1] * x[2]

RLe(x, y) == ~IsNaN(x) /\ ~IsNaN(y) /\ x[1] * y[2] <= y[1] * x[2]

RECURSIVE RSum(_)
RSum(s) == IF s = <<>> THEN Num(0) ELSE RAdd(Head(s), RSum(Tail(s)))

\* Series.min() / Series.max(): NaN entries are skipped (skipna=True); the
\* result is NaN when nothing is left.
Numbers(s) == {i \in DOMAIN s : ~IsNaN(s[i])}

SeriesMin(s) ==
    IF Numbers(s) = {} THEN NaN
    ELSE s[CHOOSE i \in Numbers(s) : \A j \in Numbers(s) : RLe(s[i], s[j])]

SeriesMax(s) ==
    IF Numbers(s) = {} THEN NaN
    ELSE s[CHOOSE i \in Numbers(s) : \A j \in Numbers(s) : RLe(s[j], s[i])]

\* Series.mean(): the mean of the entries that are numbers.
SeriesMean(s) ==
    IF Numbers(s) = {} THEN NaN
    ELSE RDiv(RSum([i \in DOMAIN s |-> IF IsNaN(s[i]) THEN Num(0) ELSE s[i]]),
              Num(Cardinality(Numbers(s))))

\* A sequence written as a function, as a sequence value: TLC then evaluates
\* every entry once instead of at every use.
AsList(f) == f \o <<>>

Column(table, name) == AsList([i \in DOMAIN table |-> table[i][name]])

(***************************************************************************)
(* segment_lap.py                                                          *)
(***************************************************************************)
Sample(dist, thr) ==
    [Laptrigger_lapdist_dls |-> dist, Steering_Angle |-> 0, throttle |-> thr,
     brake_pressure |-> 0, accx |-> 0, accy |-> 0]

\* df.sort_values('Laptrigger_lapdist_dls').reset_index(drop=True): rows of
\* equal distance keep their order.  The place of row i in the sorted table
\* is one more than the number of rows that go before it.
RankByDist(table) ==
    AsList([i \in DOMAIN table |->
        1 + Cardinality({j \in DOMAIN table :
              \/ table[j].Laptrigger_lapdist_dls < table[i].Laptrigger_lapdist_dls
              \/ /\ table[j].Laptrigger_lapdist_dls = table[i].Laptrigger_lapdist_dls
                 /\ j < i})])

SortByDist(table) ==
    LET rank == RankByDist(table)
    IN  AsList([p \in DOMAIN table |-> table[CHOOSE i \in DOMAIN table : rank[i] = p]])

\* df['Laptrigger_lapdist_dls'].max() of a non-empty table.
MaxDistOf(table) ==
    LET i == CHOOSE k \in DOMAIN table :
                 \A j \in DOMAIN table :
                     table[j].Laptrigger_lapdist_dls <= table[k].Laptrigger_lapdist_dls
    IN  table[i].Laptrigger_lapdist_dls

RECURSIVE IsPowerOfTwo(_)
IsPowerOfTwo(n) == n = 1 \/ (n > 1 /\ n % 2 = 0 /\ IsPowerOfTwo(n \div 2))

\* segment_length = max_dist / num_segments is a double.  The quotient of two
\* small integers is exact when its reduced denominator is a power of two;
\* otherwise it is rounded, up or down, and a distance that is an exact
\* multiple of the true segment length floor-divides to the multiple (0) or
\* to one less (1), the same way for every row.
RoundingOutcomes(max_dist, n) ==
    IF n = 0 \/ max_dist = 0 \/ IsPowerOfTwo(Abs(n) \div GCD(max_dist, Abs(n)))
    THEN {0} ELSE {0, 1}

\* A division that rounds the quotient to the nearest integer instead of
\* flooring it, to see what the floor is for.
NearestDivide(dist, max_dist, n, err) == (2 * dist * n + max_dist) \div (2 * max_dist)

\* dist // segment_length for max_dist > 0 and n # 0.
FloorDivide(dist, max_dist, n, err) ==
    LET q == (dist * n) \div max_dist
    IN  IF (dist * n) % max_dist = 0 /\ dist # 0 /\ err = 1 THEN q - 1 ELSE q

Min2(a, b) == IF a < b THEN a ELSE b

\* A clip that lets every id through, to see what the upper clamp is for.
clip_nothing(id, n) == id

\* Series.clip(upper=num_segments - 1)
clip_upper(id, n) == Min2(id, n - 1)

WithSegment(row, id) ==
    [Laptrigger_lapdist_dls |-> row.Laptrigger_lapdist_dls,
     Steering_Angle |-> row.Steering_Angle, throttle |-> row.throttle,
     brake_pressure |-> row.brake_pressure, accx |-> row.accx, accy |-> row.accy,
     segment_id |-> id]

Returned(v) == [ok |-> TRUE, value |-> v]
Raised(e) == [ok |-> FALSE, error |-> e]

\* segment_lap(df, num_segments).
\*  - empty table: max() is NaN, nothing is divided, the empty table comes back;
\*  - max_dist = 0: every quotient is 0 // 0 = NaN (or 0 // NaN when
\*    num_segments = 0) and astype(int) raises IntCastingNaNError;
\*  - num_segments = 0, max_dist > 0: max_dist / 0 is inf (numpy warns, does not
\*    raise), every quotient is 0 and is clipped to -1;
\*  - otherwise: floor division, clipped from above only.
segment_lap(table, n, err) ==
    LET sorted == SortByDist(table)
    IN  IF sorted = <<>> THEN Returned(<<>>)
        ELSE LET max_dist == MaxDistOf(sorted)
             IN  IF max_dist = 0 THEN Raised("IntCastingNaNError")
                 ELSE Returned(AsList(
                        [i \in DOMAIN sorted |->
                           WithSegment(sorted[i],
                              clip_upper(
                                 IF n = 0 THEN 0
                                 ELSE FloorDivide(sorted[i].Laptrigger_lapdist_dls,
                                                  max_dist, n, err),
                                 n))]))

(***************************************************************************)
(* Inputs of the pipeline: per-sample tables as process_lap_data leaves    *)
(* them, time-ordered with a non-decreasing cumulative lap distance.       *)
(***************************************************************************)
ThrottleLevels == {0, 50}

LastDist(t) == IF t = <<>> THEN 0 ELSE t[Len(t)].Laptrigger_lapdist_dls

\* Tables of exactly n rows.
SampleTables[n \in 0..MaxRows] ==
    IF n = 0 THEN {<<>>}
    ELSE UNION {{Append(t, Sample(d, th)) : d \in LastDist(t)..MaxDist, th \in ThrottleLevels} :
                   t \in SampleTables[n - 1]}

AllSampleTables == UNION {SampleTables[n] : n \in 0..MaxRows}

(***************************************************************************)
(* compute_metrics.py                                                      *)
(***************************************************************************)
\* Natural logarithm of 1..8 in thousandths (a double carries it to 16 digits;
\* only the order and the zero of the entropy matter downstream).
LnMilli == <<0, 693, 1099, 1386, 1609, 1792, 1946, 2079>>

HistogramBins == 20

\* np.histogram(series, bins=20): the bin of value v in [lo, hi]; the last
\* bin is closed on the right.  A single-valued series gets the range
\* [v - 0.5, v + 0.5] and falls in bin 10.
BinOf(v, lo, hi) ==
    IF lo = hi THEN HistogramBins \div 2
    ELSE Min2(((v - lo) * HistogramBins) \div (hi - lo), HistogramBins - 1)

SeqMin(s) == s[CHOOSE i \in DOMAIN s : \A j \in DOMAIN s : s[i] <= s[j]]
SeqMax(s) == s[CHOOSE i \in DOMAIN s : \A j \in DOMAIN s : s[j] <= s[i]]

\* calculate_shannon_entropy: density histogram, zero bins dropped,
\* scipy.stats.entropy normalises the rest to probabilities p = c / n:
\* H = ln n - (1/n) * sum c ln c.
calculate_shannon_entropy(series) ==
    LET n == Len(series)
        lo == SeqMin(series)
        hi == SeqMax(series)
        count(b) == Cardinality({i \in DOMAIN series : BinOf(series[i], lo, hi) = b})
        used == {b \in 0..(HistogramBins - 1) : count(b) > 0}
        clnc == RSum([k \in 1..HistogramBins |->
                        IF (k - 1) \in used
                        THEN Num(count(k - 1) * LnMilli[count(k - 1)]) ELSE Num(0)])
    IN  RDiv(RSub(Num(n * LnMilli[n]), clnc), Num(n * 1000))

\* series.diff().fillna(0): the first entry has no predecessor and becomes 0.
Diff(series) == [i \in DOMAIN series |-> IF i = 1 THEN 0 ELSE series[i] - series[i - 1]]

IntMean(series) ==
    RDiv(RSum([i \in DOMAIN series |-> Num(series[i])]), Num(Len(series)))

\* group['throttle'].diff().fillna(0).abs().mean()
MeanAbsDiff(series) ==
    LET d == Diff(series) IN IntMean([i \in DOMAIN d |-> Abs(d[i])])

RECURSIVE SelectPositive(_)
SelectPositive(s) ==
    IF s = <<>> THEN <<>>
    ELSE IF Head(s) > 0 THEN <<Head(s)>> \o SelectPositive(Tail(s))
         ELSE SelectPositive(Tail(s))

\* The mean, over every sample of the segment, of the rise of the brake
\* pressure (0 where it does not rise).
MeanIncrease(series) ==
    LET d == Diff(series) IN IntMean([i \in DOMAIN d |-> IF d[i] > 0 THEN d[i] ELSE 0])

\* brake_diff[brake_diff > 0].mean() if not brake_diff[brake_diff > 0].empty else 0
MeanPositiveDiff(series) ==
    LET pos == SelectPositive(Diff(series))
    IN  IF pos = <<>> THEN Num(0) ELSE IntMean(pos)

\* Largest r with r * r <= v, by bisection on lo..hi.
RECURSIVE ISqrt(_, _, _)
ISqrt(v, lo, hi) ==
    IF lo >= hi THEN lo
    ELSE LET mid == (lo + hi + 1) \div 2
         IN  IF mid * mid <= v THEN ISqrt(v, mid, hi) ELSE ISqrt(v, lo, mid - 1)

\* Series.std() (ddof = 1): NaN for a single sample (0 / 0), otherwise the root
\* of the sample variance, kept to thousandths.
Std(series) ==
    LET n == Len(series)
        total == RSum([i \in DOMAIN series |-> Num(series[i])])[1]
        \* sum of (n * x - total)^2 = n^2 * sum of squared deviations
        ss == RSum([i \in DOMAIN series |->
                      Num((n * series[i] - total) * (n * series[i] - total))])[1]
    IN  IF n = 1 THEN NaN
        ELSE LET scaled == (ss * 1000000) \div (n * n * (n - 1))
             IN  Rat(ISqrt(scaled, 0, scaled), 1000)

RECURSIVE SelectRows(_, _)
SelectRows(table, id) ==
    IF table = <<>> THEN <<>>
    ELSE IF Head(table).segment_id = id THEN <<Head(table)>> \o SelectRows(Tail(table), id)
         ELSE SelectRows(Tail(table), id)

RECURSIVE SortedIds(_)
SortedIds(ids) ==
    IF ids = {} THEN <<>>
    ELSE LET m == CHOOSE i \in ids : \A j \in ids : i <= j
         IN  <<m>> \o SortedIds(ids \ {m})

SegmentMetrics(id, group) ==
    [segment_id |-> id,
     steering_entropy |-> calculate_shannon_entropy(Column(group, "Steering_Angle")),
     throttle_jerk |-> MeanAbsDiff(Column(group, "throttle")),
     brake_panic |-> MeanPositiveDiff(Column(group, "brake_pressure")),
     lat_instability |-> Std(Column(group, "accy")),
     long_jerk |-> MeanAbsDiff(Column(group, "accx")),
     avg_dist |-> IntMean(Column(group, "Laptrigger_lapdist_dls"))]

\* A grouping that gives every id from the smallest to the largest a row,
\* with zeros where a segment holds no sample.
compute_segment_metrics_filled(table) ==
    LET ids == {table[i].segment_id : i \in DOMAIN table}
        lo == CHOOSE a \in ids : \A b \in ids : a <= b
        hi == CHOOSE a \in ids : \A b \in ids : b <= a
    IN  IF table = <<>> THEN <<>>
        ELSE AsList([k \in 1..(hi - lo + 1) |->
                 IF lo + k - 1 \in ids
                 THEN SegmentMetrics(lo + k - 1, SelectRows(table, lo + k - 1))
                 ELSE [segment_id |-> lo + k - 1, steering_entropy |-> Num(0),
                       throttle_jerk |-> Num(0), brake_panic |-> Num(0),
                       lat_instability |-> Num(0), long_jerk |-> Num(0),
                       avg_dist |-> Num(0)]])

\* compute_segment_metrics(df): df.groupby('segment_id') yields the ids that
\* occur, in ascending order, each with its rows in table order.
compute_segment_metrics(table) ==
    LET ids == SortedIds({table[i].segment_id : i \in DOMAIN table})
    IN  AsList([k \in DOMAIN ids |-> SegmentMetrics(ids[k], SelectRows(table, ids[k]))])

(***************************************************************************)
(* cli_model.py                                                            *)
(***************************************************************************)
\* Min-max normalisation without the guard for max == min.
normalize_unguarded(series) ==
    LET min_val == SeriesMin(series)
        max_val == SeriesMax(series)
    IN  AsList([i \in DOMAIN series |->
                  RDiv(RSub(series[i], min_val), RSub(max_val, min_val))])

\* normalize_series: min-max normalisation.  min() and max() skip NaN; with
\* nothing but NaN both are NaN, the test NaN == 0 is false and every entry
\* becomes NaN.  series * 0 keeps a NaN entry NaN.
normalize_series(series) ==
    LET min_val == SeriesMin(series)
        max_val == SeriesMax(series)
    IN  IF RSub(max_val, min_val) = Num(0)
        THEN AsList([i \in DOMAIN series |-> RMul(series[i], Num(0))])
        ELSE AsList([i \in DOMAIN series |->
                       RDiv(RSub(series[i], min_val), RSub(max_val, min_val))])

w_steering == <<2, 5>>
w_throttle == <<3, 10>>
w_brake == <<1, 5>>
w_lat == <<1, 10>>

\* A weighted sum with the weights of steering and throttle exchanged.
WeightedSumExchanged(ns, nt, nb, nl) ==
    RAdd(RAdd(RAdd(RMul(w_throttle, ns), RMul(w_steering, nt)), RMul(w_brake, nb)),
         RMul(w_lat, nl))

\* The weighted sum of compute_cli, left to right.
WeightedSum(ns, nt, nb, nl) ==
    RAdd(RAdd(RAdd(RMul(w_steering, ns), RMul(w_throttle, nt)), RMul(w_brake, nb)),
         RMul(w_lat, nl))

Max2(a, b) == IF a > b THEN a ELSE b

\* Series.rolling(window=3, center=True, min_periods=1).mean(): the window of
\* row i is rows i-1..i+1 by position, cut at the ends of the table; the mean
\* is taken over the numbers in it and is NaN when it holds none.
RollingMean3(series) ==
    AsList([i \in DOMAIN series |->
              SeriesMean(SubSeq(series, Max2(1, i - 1), Min2(Len(series), i + 1)))])

FusedRow(m, ns, nt, nb, nl, cli, smooth) ==
    [segment_id |-> m.segment_id, steering_entropy |-> m.steering_entropy,
     throttle_jerk |-> m.throttle_jerk, brake_panic |-> m.brake_panic,
     lat_instability |-> m.lat_instability, long_jerk |-> m.long_jerk,
     avg_dist |-> m.avg_dist,
     norm_steering |-> ns, norm_throttle |-> nt, norm_brake |-> nb, norm_lat |-> nl,
     CLI |-> cli, CLI_smooth |-> smooth]

\* compute_cli(metrics_df).  compute_segment_metrics builds its frame from a
\* list of dicts: with no segment at all the frame has no columns and the
\* first column lookup raises KeyError.
compute_cli(metrics) ==
    IF metrics = <<>> THEN Raised("KeyError")
    ELSE LET ns == normalize_series(Column(metrics, "steering_entropy"))
             nt == normalize_series(Column(metrics, "throttle_jerk"))
             nb == normalize_series(Column(metrics, "brake_panic"))
             nl == normalize_series(Column(metrics, "lat_instability"))
             cli == AsList([i \in DOMAIN metrics |->
                              WeightedSum(ns[i], nt[i], nb[i], nl[i])])
             smooth == RollingMean3(cli)
         IN  Returned(AsList([i \in DOMAIN metrics |->
                                FusedRow(metrics[i], ns[i], nt[i], nb[i], nl[i],
                                         cli[i], smooth[i])]))

(***************************************************************************)
(* insights.py                                                             *)
(***************************************************************************)
CauseMetrics ==
    <<"steering_entropy", "throttle_jerk", "brake_panic", "lat_instability", "long_jerk">>

\* Weights in which long_jerk takes the default of weights.get(m, 0.1).
weights_defaulted(m) ==
    CASE m = "steering_entropy" -> <<2, 5>>
      [] m = "throttle_jerk" -> <<3, 10>>
      [] m = "brake_panic" -> <<1, 5>>
      [] OTHER -> <<1, 10>>

\* The weights dict of compute_insights.  long_jerk is a key of it, so the
\* default of weights.get(m, 0.1) is never used.
weights(m) ==
    CASE m = "steering_entropy" -> <<2, 5>>
      [] m = "throttle_jerk" -> <<3, 10>>
      [] m = "brake_panic" -> <<1, 5>>
      [] m = "lat_instability" -> <<1, 10>>
      [] m = "long_jerk" -> <<0, 1>>
      [] OTHER -> <<1, 10>>

\* groupby(...).first(): the first value of the group that is not NaN.
RECURSIVE FirstValid(_)
FirstValid(series) ==
    IF series = <<>> THEN NaN
    ELSE IF ~IsNaN(Head(series)) THEN Head(series) ELSE FirstValid(Tail(series))

RECURSIVE SelectSection(_, _)
SelectSection(frame, id) ==
    IF frame = <<>> THEN <<>>
    ELSE IF Head(frame).section_id = id THEN <<Head(frame)>> \o SelectSection(Tail(frame), id)
         ELSE SelectSection(Tail(frame), id)

\* df.groupby('section_id')[available_cols].first().reset_index()
GroupFirst(frame) ==
    LET ids == SortedIds({frame[i].section_id : i \in DOMAIN frame})
    IN  AsList([k \in DOMAIN ids |->
           LET g == SelectSection(frame, ids[k])
           IN  [section_id |-> ids[k],
                CLI |-> FirstValid(Column(g, "CLI")),
                CLI_smooth |-> FirstValid(Column(g, "CLI_smooth")),
                steering_entropy |-> FirstValid(Column(g, "steering_entropy")),
                throttle_jerk |-> FirstValid(Column(g, "throttle_jerk")),
                brake_panic |-> FirstValid(Column(g, "brake_panic")),
                lat_instability |-> FirstValid(Column(g, "lat_instability")),
                long_jerk |-> FirstValid(Column(g, "long_jerk"))]])

\* The normalisation inside compute_insights: (v - min) / (max - min) when
\* max - min > 0, else the constant 0 for the whole column.
InsightNorm(series) ==
    LET min_val == SeriesMin(series)
        max_val == SeriesMax(series)
    IN  IF RLt(Num(0), RSub(max_val, min_val))
        THEN AsList([i \in DOMAIN series |->
                       RDiv(RSub(series[i], min_val), RSub(max_val, min_val))])
        ELSE AsList([i \in DOMAIN series |-> Num(0)])

\* get_primary_cause(row): norm is the row's normalised value per metric.  The
\* loop keeps (max_val, cause), starting from (-1, "Unknown"), and replaces
\* them only on a strictly larger weighted value.
RECURSIVE PrimaryCauseFrom(_, _, _, _)
PrimaryCauseFrom(norm, k, max_val, cause) ==
    IF k > Len(CauseMetrics) THEN cause
    ELSE LET m == CauseMetrics[k]
             weighted_val == RMul(norm[m], weights(m))
         IN  IF RLt(max_val, weighted_val)
             THEN PrimaryCauseFrom(norm, k + 1, weighted_val, m)
             ELSE PrimaryCauseFrom(norm, k + 1, max_val, cause)

get_primary_cause(norm) == PrimaryCauseFrom(norm, 1, Num(-1), "Unknown")

\* Ascending order of the numbers of a series (NaN dropped).
RECURSIVE SortedNumbers(_)
SortedNumbers(series) ==
    IF Numbers(series) = {} THEN <<>>
    ELSE LET i == CHOOSE k \in Numbers(series) :
                      \A j \in Numbers(series) : RLe(series[k], series[j])
         IN  <<series[i]>> \o
             SortedNumbers([j \in 1..(Len(series) - 1) |->
                              IF j < i THEN series[j] ELSE series[j + 1]])

\* Series.quantile(0.8), linear interpolation over the sorted numbers:
\* position (n - 1) * 4 / 5.
Quantile80(series) ==
    LET v == SortedNumbers(series)
        n == Len(v)
    IN  IF n = 0 THEN NaN
        ELSE LET lo == ((n - 1) * 4) \div 5
                 r == ((n - 1) * 4) % 5
             IN  IF r = 0 THEN v[lo + 1]
                 ELSE RAdd(v[lo + 1], RMul(Rat(r, 5), RSub(v[lo + 2], v[lo + 1])))

\* Series.mode() lists the most frequent values in sorted order; [0] is the
\* smallest of them.  Strings sort by code point: upper case first.
SortedLabels ==
    <<"Unknown", "brake_panic", "lat_instability", "long_jerk",
      "steering_entropy", "throttle_jerk">>

Occurrences(labels, l) == Cardinality({i \in DOMAIN labels : labels[i] = l})

ModeFirst(labels) ==
    LET best == CHOOSE k \in DOMAIN SortedLabels :
                   /\ \A j \in DOMAIN SortedLabels :
                         Occurrences(labels, SortedLabels[j])
                            <= Occurrences(labels, SortedLabels[k])
                   /\ \A j \in 1..(k - 1) :
                         Occurrences(labels, SortedLabels[j])
                            < Occurrences(labels, SortedLabels[k])
    IN  SortedLabels[best]

RECURSIVE SelectHighLoad(_, _)
SelectHighLoad(segments, threshold) ==
    IF segments = <<>> THEN <<>>
    ELSE IF RLe(threshold, Head(segments).CLI_smooth)
         THEN <<Head(segments)>> \o SelectHighLoad(Tail(segments), threshold)
         ELSE SelectHighLoad(Tail(segments), threshold)

\* Series.idxmax() / idxmin(): the first row holding the largest / smallest number.
IdxMax(series) ==
    CHOOSE i \in Numbers(series) :
        /\ \A j \in Numbers(series) : RLe(series[j], series[i])
        /\ \A j \in Numbers(series) : j < i => RLt(series[j], series[i])

IdxMin(series) ==
    CHOOSE i \in Numbers(series) :
        /\ \A j \in Numbers(series) : RLe(series[i], series[j])
        /\ \A j \in Numbers(series) : j < i => RLt(series[i], series[j])

\* compute_insights(df).  The two top-5 listings are sorted views of
\* df_segments and feed nothing else; they are left out.  With no number in
\* CLI_smooth, idxmax() gives NaN (or raises) and .loc[NaN] raises KeyError;
\* on an empty frame idxmax() raises ValueError.  Both happen after
\* common_cause was computed and before anything is returned.
compute_insights(frame) ==
    LET df_segments == GroupFirst(frame)
        norm == [m \in {CauseMetrics[k] : k \in DOMAIN CauseMetrics} |->
                    InsightNorm(Column(df_segments, m))]
        cause == AsList([i \in DOMAIN df_segments |->
                            get_primary_cause([m \in DOMAIN norm |-> norm[m][i]])])
        smooth == Column(df_segments, "CLI_smooth")
        high_load_threshold == Quantile80(smooth)
        high_load_segments ==
            SelectHighLoad(AsList([i \in DOMAIN df_segments |->
                                      [CLI_smooth |-> smooth[i], cause |-> cause[i]]]),
                           high_load_threshold)
        common_cause == IF high_load_segments # <<>>
                        THEN ModeFirst(Column(high_load_segments, "cause"))
                        ELSE "N/A"
    IN  IF df_segments = <<>> THEN Raised("ValueError")
        ELSE IF Numbers(smooth) = {} THEN Raised("KeyError")
        ELSE Returned(
               [avg_cli |-> SeriesMean(smooth),
                max_cli |-> SeriesMax(smooth),
                common_cause |-> common_cause,
                max_stress_segment |-> df_segments[IdxMax(smooth)].section_id,
                min_stress_segment |-> df_segments[IdxMin(smooth)].section_id,
                primary_cause |-> cause,
                sections |-> Column(df_segments, "section_id")])

(***************************************************************************)
(* app.py: the run of one request, lines 90-113.                           *)
(***************************************************************************)
RECURSIVE FindSegment(_, _)
FindSegment(fused, id) ==
    IF Head(fused).segment_id = id THEN Head(fused) ELSE FindSegment(Tail(fused), id)

\* pd.merge(df_segmented, metrics_df[metric_cols], on='segment_id', how='left')
\* and section_id = segment_id.  Every segment id of df_segmented has its row
\* in metrics_df.
MergeOnSegment(segmented, fused) ==
    AsList([i \in DOMAIN segmented |->
        LET m == FindSegment(fused, segmented[i].segment_id)
        IN  [segment_id |-> m.segment_id, section_id |-> m.segment_id,
             Laptrigger_lapdist_dls |-> segmented[i].Laptrigger_lapdist_dls,
             CLI |-> m.CLI, CLI_smooth |-> m.CLI_smooth,
             steering_entropy |-> m.steering_entropy, throttle_jerk |-> m.throttle_jerk,
             brake_panic |-> m.brake_panic, lat_instability |-> m.lat_instability,
             long_jerk |-> m.long_jerk]])

\* A session in which nothing has been stored.
EmptySession == [k \in {} |-> None]

idleApp == session_state = EmptySession

idleLoad == /\ telemetry_file = None
            /\ request = None
            /\ reply = None

SegmentCounts == (-1)..MaxSegments

InitPipeline ==
    /\ df \in AllSampleTables
    /\ num_segments \in SegmentCounts
    /\ fl_err \in RoundingOutcomes(IF df = <<>> THEN 0 ELSE MaxDistOf(df), num_segments)
    /\ df_segmented = None
    /\ metrics_df = None
    /\ cli_df = None
    /\ final_df = None
    /\ results = None
    /\ pc = "input"
    /\ idleLoad
    /\ idleApp

SegmentLap ==
    /\ pc = "input"
    /\ df_segmented' = segment_lap(df, num_segments, fl_err)
    /\ pc' = IF df_segmented'.ok THEN "segmented" ELSE "failed"
    /\ UNCHANGED <<df, num_segments, fl_err, metrics_df, cli_df, final_df, results>>
    /\ UNCHANGED loadVars
    /\ UNCHANGED appVars

ComputeSegmentMetrics ==
    /\ pc = "segmented"
    /\ metrics_df' = compute_segment_metrics(df_segmented.value)
    /\ pc' = "metrics"
    /\ UNCHANGED <<df, num_segments, fl_err, df_segmented, cli_df, final_df, results>>
    /\ UNCHANGED loadVars
    /\ UNCHANGED appVars

ComputeCli ==
    /\ pc = "metrics"
    /\ cli_df' = compute_cli(metrics_df)
    /\ pc' = IF cli_df'.ok THEN "fused" ELSE "failed"
    /\ UNCHANGED <<df, num_segments, fl_err, df_segmented, metrics_df, final_df, results>>
    /\ UNCHANGED loadVars
    /\ UNCHANGED appVars

MergeFinal ==
    /\ pc = "fused"
    /\ final_df' = MergeOnSegment(df_segmented.value, cli_df.value)
    /\ pc' = "merged"
    /\ UNCHANGED <<df, num_segments, fl_err, df_segmented, metrics_df, cli_df, results>>
    /\ UNCHANGED loadVars
    /\ UNCHANGED appVars

ComputeInsights ==
    /\ pc = "merged"
    /\ results' = compute_insights(final_df)
    /\ pc' = IF results'.ok THEN "done" ELSE "failed"
    /\ UNCHANGED <<df, num_segments, fl_err, df_segmented, metrics_df, cli_df, final_df>>
    /\ UNCHANGED loadVars
    /\ UNCHANGED appVars

NextPipeline ==
    \/ SegmentLap
    \/ ComputeSegmentMetrics
    \/ ComputeCli
    \/ MergeFinal
    \/ ComputeInsights

\* One request, from the per-sample table to the insights.
SpecPipeline == InitPipeline /\ [][NextPipeline]_vars

(***************************************************************************)
(* The fusion stages over all small metrics tables.  The table grows as in *)
(* the loop of compute_segment_metrics (compute_metrics.py:22-55), one row *)
(* per segment in ascending id order, with the values of the row chosen    *)
(* freely instead of computed from samples.  A segment with a single       *)
(* sample has lat_instability NaN and every other metric 0 (lines 29-45);  *)
(* ids start at 0 and skip the segments that hold no sample.               *)
(***************************************************************************)
\* What a row adds to the weight of its table.
RowWeight(r) == r.s + r.t + r.b + r.l + r.j + r.gap + (IF r.single THEN 1 ELSE 0)

\* The rows of weight at most k; the first row of a table has id 0 (no gap).
ProtoRows(k, first) ==
    {r \in [s : 0..k, t : 0..k, b : 0..k, l : 0..k, j : 0..k,
            single : BOOLEAN, gap : IF first THEN {0} ELSE 0..1] :
        /\ RowWeight(r) <= k
        /\ r.single => r.s + r.t + r.b + r.l + r.j = 0}

MetricsRow(r, id) ==
    [segment_id |-> id, steering_entropy |-> Num(r.s), throttle_jerk |-> Num(r.t),
     brake_panic |-> Num(r.b),
     lat_instability |-> IF r.single THEN NaN ELSE Num(r.l),
     long_jerk |-> Num(r.j), avg_dist |-> Num(id)]

\* Weight of a table: its entries, its NaNs and the ids it skips.
RECURSIVE TableWeight(_)
TableWeight(t) ==
    IF t = <<>> THEN 0
    ELSE LET m == t[Len(t)]
             before == SubSeq(t, 1, Len(t) - 1)
         IN  TableWeight(before)
             + m.steering_entropy[1] + m.throttle_jerk[1] + m.brake_panic[1]
             + m.long_jerk[1]
             + (IF IsNaN(m.lat_instability) THEN 1 ELSE m.lat_instability[1])
             + (m.segment_id - (IF before = <<>> THEN 0
                                ELSE before[Len(before)].segment_id + 1))

\* The samples of a further segment: one if it is a single-sample segment,
\* else two; only their segment id is read downstream.
GroupOf(id, single) ==
    IF single THEN <<WithSegment(Sample(id, 0), id)>>
    ELSE <<WithSegment(Sample(id, 0), id), WithSegment(Sample(id, 0), id)>>

InitCli ==
    /\ df = <<>>
    /\ num_segments = 0
    /\ fl_err = 0
    /\ df_segmented = Returned(<<>>)
    /\ metrics_df = <<>>
    /\ cli_df = None
    /\ final_df = None
    /\ results = None
    /\ pc = "grouping"
    /\ idleLoad
    /\ idleApp

\* One pass of the loop: the next segment that holds samples, and its row.
AppendSegmentRow ==
    /\ pc = "grouping"
    /\ Len(metrics_df) < MaxMetricRows
    /\ \E r \in ProtoRows(MaxWeight - TableWeight(metrics_df), metrics_df = <<>>) :
          LET id == IF metrics_df = <<>> THEN 0
                    ELSE metrics_df[Len(metrics_df)].segment_id + 1 + r.gap
          IN  /\ metrics_df' = Append(metrics_df, MetricsRow(r, id))
              /\ df_segmented' = Returned(df_segmented.value \o GroupOf(id, r.single))
    /\ UNCHANGED <<df, num_segments, fl_err, cli_df, final_df, results, pc>>
    /\ UNCHANGED loadVars
    /\ UNCHANGED appVars

\* The loop is over: return pd.DataFrame(metrics).
ReturnMetrics ==
    /\ pc = "grouping"
    /\ pc' = "metrics"
    /\ UNCHANGED pipeVars
    /\ UNCHANGED loadVars
    /\ UNCHANGED appVars

NextCli ==
    \/ AppendSegmentRow
    \/ ReturnMetrics
    \/ ComputeCli
    \/ MergeFinal
    \/ ComputeInsights

SpecCli == InitCli /\ [][NextCli]_vars

(***************************************************************************)
(* compute_segment_metrics over segmented tables whose brake pressure      *)
(* varies: up to MaxRows samples in one or two segments, sorted by         *)
(* distance as segment_lap leaves them, the brake pressure of each sample  *)
(* in 0..MaxBrake units.                                                   *)
(***************************************************************************)
BrakeSample(id, brake) ==
    [WithSegment(Sample(id, 0), id) EXCEPT !.brake_pressure = brake]

BrakeTables[n \in 0..MaxRows] ==
    IF n = 0 THEN {<<>>}
    ELSE UNION {{Append(t, BrakeSample(id, b)) :
                    id \in (IF t = <<>> THEN 0 ELSE t[Len(t)].segment_id)..1,
                    b \in 0..MaxBrake} : t \in BrakeTables[n - 1]}

InitBrake ==
    /\ df = <<>>
    /\ num_segments = 2
    /\ fl_err = 0
    /\ df_segmented \in {Returned(t) : t \in UNION {BrakeTables[n] : n \in 0..MaxRows}}
    /\ metrics_df = None
    /\ cli_df = None
    /\ final_df = None
    /\ results = None
    /\ pc = "segmented"
    /\ idleLoad
    /\ idleApp

NextBrake == ComputeSegmentMetrics

SpecBrake == InitBrake /\ [][NextBrake]_vars

(***************************************************************************)
(* segment_lap on a synthetic lap: s samples whose lap distance grows      *)
(* linearly from 0 to 1200, segmented with a count the slider of app.py    *)
(* offers.                                                                 *)
(***************************************************************************)
MaxTens == 12       \* a synthetic lap has at most 10 * MaxTens samples

SampleCounts == {10 * k : k \in 1..MaxTens}

\* Sample i of s (i = 0..s-1) lies at 1200 * i / (s - 1).  The model keeps
\* the numerator: distances are in units of 1/(s - 1), which floor division
\* by max_dist / n does not see.
SyntheticLap(s) == AsList([i \in 1..s |-> Sample(1200 * (i - 1), 0)])

\* st.sidebar.slider("Segments", 40, 80, 60, step=5)
SliderCounts == {40 + 5 * k : k \in 0..8}

\* The segment length is the double 1200 / num_segments.
InitSynthetic ==
    /\ \E s \in SampleCounts : df = SyntheticLap(s)
    /\ num_segments \in SliderCounts
    /\ fl_err \in RoundingOutcomes(1200, num_segments)
    /\ df_segmented = None
    /\ metrics_df = None
    /\ cli_df = None
    /\ final_df = None
    /\ results = None
    /\ pc = "input"
    /\ idleLoad
    /\ idleApp

NextSynthetic == SegmentLap

SpecSynthetic == InitSynthetic /\ [][NextSynthetic]_vars

(***************************************************************************)
(* load_data.py and processor.py: the telemetry source.                    *)
(*                                                                         *)
(* A source is missing, unreadable (it exists but open() or the parser     *)
(* raises), or present with an optional header line and its data lines.    *)
(* Every line carries the speed channel: (vehicle_id, lap, timestamp,      *)
(* telemetry_value).  Timestamps are whole seconds.                        *)
(***************************************************************************)
VehicleIds == {1, 2}
Laps == {1, 2}
Timestamps == {1, 2}
Speeds == {0, 2}

TelemetryRows ==
    [vehicle_id : VehicleIds, lap : Laps, timestamp : Timestamps, telemetry_value : Speeds]

LineSeqs[n \in 0..MaxLines] ==
    IF n = 0 THEN {<<>>}
    ELSE {Append(ls, r) : ls \in LineSeqs[n - 1], r \in TelemetryRows}

TelemetryFiles ==
    {[state |-> "missing"], [state |-> "unreadable"]}
    \cup {[state |-> "present", has_header |-> h, lines |-> ls] :
             h \in BOOLEAN, ls \in UNION {LineSeqs[n] : n \in 0..MaxLines}}

\* os.path.exists(telemetry_file)
Exists(file) == file.state # "missing"

\* What pd.read_csv yields.  has_header: the first line names the columns.
\* Otherwise names=... is passed with header=0, and the first line of the file
\* is consumed as the header; with no line at all the parser raises
\* EmptyDataError.
Parses(file) == file.state = "present" /\ (file.has_header \/ file.lines # <<>>)

DataRows(file) == IF file.has_header THEN file.lines ELSE Tail(file.lines)

\* The chunks of chunksize rows, in file order.
RECURSIVE Chunks(_)
Chunks(rows) ==
    IF rows = <<>> THEN <<>>
    ELSE IF Len(rows) <= ChunkRows THEN <<rows>>
         ELSE <<SubSeq(rows, 1, ChunkRows)>> \o Chunks(SubSeq(rows, ChunkRows + 1, Len(rows)))

RECURSIVE SortedSet(_)
SortedSet(xs) ==
    IF xs = {} THEN <<>>
    ELSE LET m == CHOOSE x \in xs : \A y \in xs : x <= y
         IN  <<m>> \o SortedSet(xs \ {m})

RECURSIVE UniqueVehicles(_)
UniqueVehicles(chunks) ==
    IF chunks = <<>> THEN {}
    ELSE {Head(chunks)[i].vehicle_id : i \in DOMAIN Head(chunks)}
         \cup UniqueVehicles(Tail(chunks))

\* get_available_vehicles(telemetry_file): [] for a missing source, and []
\* again from the except branch for anything raised while reading.
get_available_vehicles(file) ==
    IF ~Exists(file) THEN Returned(<<>>)
    ELSE IF ~Parses(file) THEN Returned(<<>>)
    ELSE Returned(SortedSet(UniqueVehicles(Chunks(DataRows(file)))))

RECURSIVE UniqueLaps(_, _)
UniqueLaps(chunks, vehicle_id) ==
    IF chunks = <<>> THEN {}
    ELSE {Head(chunks)[i].lap :
             i \in {k \in DOMAIN Head(chunks) : Head(chunks)[k].vehicle_id = vehicle_id}}
         \cup UniqueLaps(Tail(chunks), vehicle_id)

\* get_available_laps(telemetry_file, vehicle_id)
get_available_laps(file, vehicle_id) ==
    IF ~Exists(file) THEN Returned(<<>>)
    ELSE IF ~Parses(file) THEN Returned(<<>>)
    ELSE Returned(SortedSet(UniqueLaps(Chunks(DataRows(file)), vehicle_id)))

\* A filter on the vehicle alone.
RECURSIVE SelectVehicle(_, _, _)
SelectVehicle(chunk, vehicle_id, lap) ==
    IF chunk = <<>> THEN <<>>
    ELSE IF Head(chunk).vehicle_id = vehicle_id
         THEN <<Head(chunk)>> \o SelectVehicle(Tail(chunk), vehicle_id, lap)
         ELSE SelectVehicle(Tail(chunk), vehicle_id, lap)

RECURSIVE SelectMatching(_, _, _)
SelectMatching(chunk, vehicle_id, lap) ==
    IF chunk = <<>> THEN <<>>
    ELSE IF Head(chunk).vehicle_id = vehicle_id /\ Head(chunk).lap = lap
         THEN <<Head(chunk)>> \o SelectMatching(Tail(chunk), vehicle_id, lap)
         ELSE SelectMatching(Tail(chunk), vehicle_id, lap)

\* The loop of processor.py:34-42: the filtered chunks that are not empty.
RECURSIVE FilteredChunks(_, _, _)
FilteredChunks(chunks, vehicle_id, lap) ==
    IF chunks = <<>> THEN <<>>
    ELSE LET filtered == SelectMatching(Head(chunks), vehicle_id, lap)
         IN  (IF filtered # <<>> THEN <<filtered>> ELSE <<>>)
             \o FilteredChunks(Tail(chunks), vehicle_id, lap)

\* pd.concat(chunks)
RECURSIVE Concat(_)
Concat(chunks) == IF chunks = <<>> THEN <<>> ELSE Head(chunks) \o Concat(Tail(chunks))

\* pivot_table(index=['timestamp', 'vehicle_id', 'lap'], aggfunc='first'):
\* one row per timestamp, in ascending order, holding the first value read
\* for it; sort_values('timestamp') keeps that order and ffill/bfill find
\* nothing to fill in the one channel.
FirstAt(rows, ts) ==
    rows[CHOOSE i \in DOMAIN rows :
            /\ rows[i].timestamp = ts
            /\ \A j \in 1..(i - 1) : rows[j].timestamp # ts]

\* A pivot that keeps the timestamps in the order in which the file has them.
RECURSIVE StampsInFileOrder(_, _)
StampsInFileOrder(rows, seen) ==
    IF rows = <<>> THEN <<>>
    ELSE IF Head(rows).timestamp \in seen THEN StampsInFileOrder(Tail(rows), seen)
         ELSE <<Head(rows).timestamp>>
              \o StampsInFileOrder(Tail(rows), seen \cup {Head(rows).timestamp})

PivotInFileOrder(rows) ==
    LET stamps == StampsInFileOrder(rows, {})
    IN  AsList([k \in DOMAIN stamps |->
                  [timestamp |-> stamps[k], speed |-> FirstAt(rows, stamps[k]).telemetry_value]])

Pivot(rows) ==
    LET stamps == SortedSet({rows[i].timestamp : i \in DOMAIN rows})
    IN  AsList([k \in DOMAIN stamps |->
                  [timestamp |-> stamps[k], speed |-> FirstAt(rows, stamps[k]).telemetry_value]])

\* Running sum of a series of rationals.
RECURSIVE CumSum(_)
CumSum(series) ==
    IF series = <<>> THEN <<>>
    ELSE LET before == CumSum(SubSeq(series, 1, Len(series) - 1))
         IN  Append(before,
                    IF before = <<>> THEN series[1]
                    ELSE RAdd(before[Len(before)], series[Len(series)]))

\* processor.py:67-145 on a pivot that holds the speed channel only.  The
\* five absent channels are filled with 0.0; with Steering_Angle 0 the wheel
\* angle, yaw rate and heading are 0, so vx = speed and vy = 0.  Speed is
\* taken as km/h when its maximum exceeds 100.
Reconstruct(pivot, vehicle_id, lap) ==
    LET n == Len(pivot)
        dt == AsList([i \in 1..n |->
                        IF i = 1 THEN 0 ELSE pivot[i].timestamp - pivot[i - 1].timestamp])
        max_speed == SeqMax(Column(pivot, "speed"))
        speed_ms == AsList([i \in 1..n |->
                              IF max_speed > 100 THEN Rat(pivot[i].speed * 5, 18)
                              ELSE Num(pivot[i].speed)])
        dist == CumSum(AsList([i \in 1..n |-> RMul(speed_ms[i], Num(dt[i]))]))
    IN  AsList([i \in 1..n |->
                  [timestamp |-> pivot[i].timestamp, vehicle_id |-> vehicle_id, lap |-> lap,
                   speed |-> pivot[i].speed, Steering_Angle |-> 0, throttle |-> 0,
                   brake_pressure |-> 0, accx |-> 0, accy |-> 0,
                   dt |-> dt[i], heading |-> Num(0), X |-> dist[i], Y |-> Num(0),
                   Laptrigger_lapdist_dls |-> dist[i]]])

\* What a call of process_lap_data did: the stages it ran, and what it
\* returned or raised.  ValueError carries the message
\* "No data found for {vehicle_id} Lap {lap}".
Outcome(stages, result) == [ok |-> result.ok, stages |-> stages, result |-> result]

process_lap_data(file, vehicle_id, lap) ==
    IF ~Exists(file) THEN Outcome(<<>>, Raised([type |-> "FileNotFoundError"]))
    ELSE IF file.state = "unreadable" THEN Outcome(<<>>, Raised([type |-> "OSError"]))
    ELSE IF ~Parses(file) THEN Outcome(<<>>, Raised([type |-> "EmptyDataError"]))
    ELSE LET chunks == FilteredChunks(Chunks(DataRows(file)), vehicle_id, lap)
         IN  IF chunks = <<>>
             THEN Outcome(<<"filter">>,
                          Raised([type |-> "ValueError", vehicle_id |-> vehicle_id,
                                  lap |-> lap]))
             ELSE Outcome(<<"filter", "pivot", "rename", "normalize", "dead_reckoning">>,
                          Returned(Reconstruct(Pivot(Concat(chunks)), vehicle_id, lap)))

idlePipeline ==
    /\ df = <<>>
    /\ num_segments = 0
    /\ fl_err = 0
    /\ df_segmented = None
    /\ metrics_df = None
    /\ cli_df = None
    /\ final_df = None
    /\ results = None
    /\ pc = "load"

InitLoad ==
    /\ telemetry_file \in TelemetryFiles
    /\ request = None
    /\ reply = None
    /\ idlePipeline
    /\ idleApp

GetAvailableVehicles ==
    /\ pc = "load"
    /\ request' = [op |-> "get_available_vehicles"]
    /\ reply' = get_available_vehicles(telemetry_file)
    /\ UNCHANGED <<telemetry_file, pc>>
    /\ UNCHANGED pipeVars
    /\ UNCHANGED appVars

GetAvailableLaps ==
    /\ pc = "load"
    /\ \E v \in VehicleIds :
          /\ request' = [op |-> "get_available_laps", vehicle_id |-> v]
          /\ reply' = get_available_laps(telemetry_file, v)
    /\ UNCHANGED <<telemetry_file, pc>>
    /\ UNCHANGED pipeVars
    /\ UNCHANGED appVars

ProcessLapData ==
    /\ pc = "load"
    /\ \E v \in VehicleIds, l \in Laps :
          /\ request' = [op |-> "process_lap_data", vehicle_id |-> v, lap |-> l]
          /\ reply' = process_lap_data(telemetry_file, v, l)
    /\ UNCHANGED <<telemetry_file, pc>>
    /\ UNCHANGED pipeVars
    /\ UNCHANGED appVars

NextLoad ==
    \/ GetAvailableVehicles
    \/ GetAvailableLaps
    \/ ProcessLapData

(***************************************************************************)
(* The loader on the file of one lap: every line belongs to vehicle 1 and  *)
(* lap 1, with three timestamps in any order and repetition, and a speed   *)
(* of 0, 2 or 200 (above 100 the speed is taken as km/h).                  *)
(***************************************************************************)
LapRows ==
    [vehicle_id : {1}, lap : {1}, timestamp : {1, 2, 3}, telemetry_value : {0, 2, 200}]

LapLineSeqs[n \in 0..(MaxLines + 1)] ==
    IF n = 0 THEN {<<>>}
    ELSE {Append(ls, r) : ls \in LapLineSeqs[n - 1], r \in LapRows}

LapFiles ==
    {[state |-> "present", has_header |-> h, lines |-> ls] :
        h \in BOOLEAN, ls \in UNION {LapLineSeqs[n] : n \in 0..(MaxLines + 1)}}

InitLap ==
    /\ telemetry_file \in LapFiles
    /\ request = None
    /\ reply = None
    /\ idlePipeline
    /\ idleApp

SpecLap == InitLap /\ [][NextLoad]_vars

\* Calls of the loader on one telemetry source.
SpecLoad == InitLoad /\ [][NextLoad]_vars

(***************************************************************************)
(* app.py: the script reruns from its first line on every interaction and  *)
(* keeps final_df, metrics_df and last_config in st.session_state.  A run  *)
(* of the script is a sequence of steps: Rerun (lines 38-80), LoadSession  *)
(* (84-88), SegmentLap (90), ComputeSegmentMetrics (91), ComputeCli (92),  *)
(* MergeFinal (94-103), Store (105-107), Render (109-113).  A step that    *)
(* raises ends the run; st.stop() ends it as well.                         *)
(***************************************************************************)
MaxSliderSteps == 1     \* slider positions above the lowest that are tried

\* What scan_data_directory finds as data_files['telemetry'].
AppPaths == {"data/R1_telemetry_data.csv", "data/R2_telemetry_data.csv"}

\* st.sidebar.slider("Number of Segments", min_value=40, max_value=80, step=5)
AppSegments == {40 + 5 * k : k \in 0..Min2(MaxSliderSteps, 8)}

\* load_session(telemetry, vehicle_id, lap): the per-sample table of the lap,
\* or an exception.  The first source holds four laps of four samples, two
\* at the start and two at the end of a lap whose length differs from one
\* selection to the next.  The second holds a lap of two samples (one per
\* segment, so that lat_instability is NaN throughout), a lap on which the
\* car never moves, a lap with no sample, and a lap with no data (raises).
load_session(path, vehicle_id, lap) ==
    IF path = "data/R1_telemetry_data.csv"
    THEN Returned(<<Sample(0, 0), Sample(0, 0),
                    Sample(2 * vehicle_id + lap, 0), Sample(2 * vehicle_id + lap, 50)>>)
    ELSE IF vehicle_id = 1 /\ lap = 1 THEN Returned(<<Sample(0, 0), Sample(5, 50)>>)
    ELSE IF vehicle_id = 1 /\ lap = 2 THEN Returned(<<Sample(0, 0), Sample(0, 50)>>)
    ELSE IF vehicle_id = 2 /\ lap = 1 THEN Returned(<<>>)
    ELSE Raised("ValueError")

\* st.session_state.get(key)
Get(state, key) == IF key \in DOMAIN state THEN state[key] ELSE None

\* st.session_state[key] = value
SetItem(state, key, value) ==
    [k \in DOMAIN state \cup {key} |-> IF k = key THEN value ELSE state[k]]

\* current_config (lines 73-78)
current_config ==
    [vehicle_id |-> request.vehicle_id, lap |-> request.lap,
     segments |-> request.segments, telemetry |-> telemetry_file]

\* A test that looks at the button and at the presence of a result only, to
\* see what the comparison with last_config is for.
should_run_unless_stored(run_requested, state, config) ==
    run_requested \/ "final_df" \notin DOMAIN state

\* should_run (line 80)
should_run(run_requested, state, config) ==
    \/ run_requested
    \/ "final_df" \notin DOMAIN state
    \/ Get(state, "last_config") # config

\* The locals of a script run that has computed nothing yet.
freshLocals ==
    /\ df' = <<>>
    /\ fl_err' = 0
    /\ df_segmented' = None
    /\ metrics_df' = None
    /\ cli_df' = None
    /\ final_df' = None
    /\ results' = None

Page(name) == [page |-> name]

InitApp ==
    /\ df = <<>>
    /\ num_segments = 60
    /\ fl_err = 0
    /\ df_segmented = None
    /\ metrics_df = None
    /\ cli_df = None
    /\ final_df = None
    /\ results = None
    /\ pc = "idle"
    /\ telemetry_file = None
    /\ request = None
    /\ reply = Page("blank")
    /\ idleApp

\* An interaction (or the first visit) starts the script: lines 38-80.  The
\* scan may find no telemetry (line 43), the file may list no vehicle or no
\* lap (lines 61, 67); otherwise the widgets give the selection.
Rerun ==
    /\ pc \in {"idle", "failed", "stopped"}
    /\ freshLocals
    /\ UNCHANGED appVars
    /\ \/ /\ telemetry_file' = None
          /\ request' = None
          /\ reply' = Page("no telemetry")
          /\ pc' = "stopped"
          /\ UNCHANGED num_segments
       \/ /\ telemetry_file' \in AppPaths
          /\ request' = None
          /\ reply' = Page("nothing to select")
          /\ pc' = "stopped"
          /\ UNCHANGED num_segments
       \/ \E path \in AppPaths, v \in VehicleIds, l \in Laps, n \in AppSegments,
             run_requested \in BOOLEAN :
             /\ telemetry_file' = path
             /\ request' = [vehicle_id |-> v, lap |-> l, segments |-> n,
                            run_requested |-> run_requested]
             /\ num_segments' = n
             /\ reply' = Page("blank")
             /\ pc' = IF should_run(run_requested, session_state,
                                    [vehicle_id |-> v, lap |-> l, segments |-> n,
                                     telemetry |-> path])
                      THEN "load_session" ELSE "render"

\* Lines 84-88: an exception of load_session is reported and the script stops.
LoadSession ==
    /\ pc = "load_session"
    /\ LET loaded == load_session(telemetry_file, request.vehicle_id, request.lap)
       IN  IF loaded.ok
           THEN /\ df' = loaded.value
                /\ fl_err' \in RoundingOutcomes(
                                  IF loaded.value = <<>> THEN 0 ELSE MaxDistOf(loaded.value),
                                  num_segments)
                /\ pc' = "input"
                /\ UNCHANGED reply
           ELSE /\ reply' = Page("error")
                /\ pc' = "stopped"
                /\ UNCHANGED <<df, fl_err>>
    /\ UNCHANGED <<num_segments, df_segmented, metrics_df, cli_df, final_df, results>>
    /\ UNCHANGED <<telemetry_file, request>>
    /\ UNCHANGED appVars

\* A store that keeps the merged table only.
StoreFinalOnly ==
    /\ pc = "merged"
    /\ session_state' = SetItem(session_state, "final_df", final_df)
    /\ pc' = "render"
    /\ UNCHANGED pipeVars
    /\ UNCHANGED loadVars

\* Lines 105-107.  metrics_df of line 106 is what compute_cli returned.
Store ==
    /\ pc = "merged"
    /\ session_state' =
          SetItem(SetItem(SetItem(session_state, "final_df", final_df),
                          "metrics_df", cli_df.value),
                  "last_config", current_config)
    /\ pc' = "render"
    /\ UNCHANGED pipeVars
    /\ UNCHANGED loadVars

\* Lines 109-113 and the else branch: the stored tables are read and the
\* insights computed from them, or the hint to select a lap is shown.
Render ==
    /\ pc = "render"
    /\ IF "final_df" \in DOMAIN session_state /\ session_state["final_df"] # <<>>
       THEN IF "metrics_df" \notin DOMAIN session_state
            THEN /\ results' = Raised("KeyError")
                 /\ reply' = Page("exception")
            ELSE LET computed == compute_insights(session_state["final_df"])
                 IN  /\ results' = computed
                     /\ reply' = IF computed.ok
                                 THEN [page |-> "results",
                                       final_df |-> session_state["final_df"],
                                       metrics_df |-> session_state["metrics_df"]]
                                 ELSE Page("exception")
       ELSE /\ reply' = Page("info")
            /\ UNCHANGED results
    /\ pc' = "idle"
    /\ UNCHANGED <<df, num_segments, fl_err, df_segmented, metrics_df, cli_df, final_df>>
    /\ UNCHANGED <<telemetry_file, request>>
    /\ UNCHANGED appVars

NextApp ==
    \/ Rerun
    \/ LoadSession
    \/ SegmentLap
    \/ ComputeSegmentMetrics
    \/ ComputeCli
    \/ MergeFinal
    \/ Store
    \/ Render

\* Any sequence of reruns of the script in one browser session.
SpecApp == InitApp /\ [][NextApp]_vars

(***************************************************************************)
(* Properties of segment_lap (SpecPipeline).                               *)
(***************************************************************************)
\* C1: for every segment count N >= 1 and every table whose largest lap
\* distance is positive, segment_lap returns every row with a segment_id in
\* 0..N-1, and a row at the largest distance has segment_id N-1.
C1_SegmentIdsInRange ==
    (/\ df_segmented # None
     /\ num_segments >= 1
     /\ df # <<>>
     /\ MaxDistOf(df) > 0)
    => /\ df_segmented.ok
       /\ Len(df_segmented.value) = Len(df)
       /\ \A i \in DOMAIN df_segmented.value :
            LET row == df_segmented.value[i]
            IN  /\ row.segment_id \in 0..(num_segments - 1)
                /\ row.Laptrigger_lapdist_dls = MaxDistOf(df)
                      => row.segment_id = num_segments - 1

\* A lap of three samples or more cut into two segments or more, the quotient
\* of its last row being N before the clip, with rows in the first and in the
\* last segment.
C1_Witness ==
    /\ pc = "segmented"
    /\ num_segments >= 2
    /\ Len(df) >= 3
    /\ MaxDistOf(df) > 0
    /\ FloorDivide(MaxDistOf(df), MaxDistOf(df), num_segments, fl_err) = num_segments
    /\ \E i, j \in DOMAIN df_segmented.value :
          /\ df_segmented.value[i].segment_id = 0
          /\ df_segmented.value[j].segment_id = num_segments - 1
          /\ df_segmented.value[j].Laptrigger_lapdist_dls = MaxDistOf(df)

\* C2: segment_lap raises, and returns no table, when every lap distance is
\* zero, when the table is empty, or when the segment count is not positive.
C2_DegenerateInputRaises ==
    (/\ df_segmented # None
     /\ pc # "grouping"
     /\ \/ df = <<>>
        \/ MaxDistOf(df) = 0
        \/ num_segments <= 0)
    => ~df_segmented.ok

(***************************************************************************)
(* Properties of the fusion (SpecPipeline, SpecCli).                       *)
(***************************************************************************)
Fused == cli_df # None /\ cli_df.ok

IsNumber(x) == ~IsNaN(x)

\* Min-max normalisation of entry i of a series that is not constant.
MinMax(series, i) ==
    RDiv(RSub(series[i], SeriesMin(series)), RSub(SeriesMax(series), SeriesMin(series)))

NormOf ==
    [steering_entropy |-> "norm_steering", throttle_jerk |-> "norm_throttle",
     brake_panic |-> "norm_brake", lat_instability |-> "norm_lat"]

\* The metrics table with the long_jerk of every segment put to 0.
WithoutLongJerk(metrics) ==
    AsList([i \in DOMAIN metrics |-> [metrics[i] EXCEPT !.long_jerk = Num(0)]])

\* C5: in every segment CLI = 0.4 norm_steering + 0.3 norm_throttle
\* + 0.2 norm_brake + 0.1 norm_lat; each norm_* of a metric that varies is
\* (value - min) / (max - min) over the segments of the lap; and CLI is what
\* it is for the table with every long_jerk put to 0, so that two tables
\* that differ in long_jerk alone have the same CLI in every segment.
C5_CliIsWeightedSum ==
    (Fused /\ pc = "fused") =>
      /\ \A i \in DOMAIN cli_df.value :
           LET r == cli_df.value[i]
           IN  r.CLI = RAdd(RAdd(RAdd(RMul(Rat(4, 10), r.norm_steering),
                                      RMul(Rat(3, 10), r.norm_throttle)),
                                 RMul(Rat(2, 10), r.norm_brake)),
                            RMul(Rat(1, 10), r.norm_lat))
      /\ \A m \in DOMAIN NormOf :
           LET series == Column(metrics_df, m)
           IN  RLt(SeriesMin(series), SeriesMax(series))
               => \A i \in DOMAIN series :
                     IsNumber(series[i])
                        => cli_df.value[i][NormOf[m]] = MinMax(series, i)
      /\ Column(compute_cli(WithoutLongJerk(metrics_df)).value, "CLI")
            = Column(cli_df.value, "CLI")

\* Three segments, long_jerk differing between them, and a CLI strictly
\* between 0 and 1 made of two metrics.
C5_Witness ==
    /\ Fused
    /\ Len(cli_df.value) >= 3
    /\ \E i, j \in DOMAIN metrics_df : metrics_df[i].long_jerk # metrics_df[j].long_jerk
    /\ \E i \in DOMAIN cli_df.value :
          /\ RLt(Num(0), cli_df.value[i].CLI)
          /\ RLt(cli_df.value[i].CLI, Num(1))
          /\ RLt(Num(0), cli_df.value[i].norm_steering)
          /\ RLt(Num(0), cli_df.value[i].norm_throttle)

InUnit(x) == RLe(Num(0), x) /\ RLe(x, Num(1))

\* C6: CLI and the four norm_* of every segment lie in [0, 1].  Stated for
\* the laps cut into one segment or more.
C6_ScoresInUnitInterval ==
    (Fused /\ num_segments >= 1) =>
      \A i \in DOMAIN cli_df.value :
         LET r == cli_df.value[i]
         IN  /\ InUnit(r.norm_steering)
             /\ InUnit(r.norm_throttle)
             /\ InUnit(r.norm_brake)
             /\ InUnit(r.norm_lat)
             /\ InUnit(r.CLI)

SameEverywhere(series) ==
    \A i, j \in DOMAIN series : IsNumber(series[i]) /\ series[i] = series[j]

AllZero(series) == \A i \in DOMAIN series : series[i] = Num(0)

\* C7: a metric with the same value in every segment has the normalised
\* value 0 in every segment; and when the throttle is the same in every
\* sample of the lap, throttle_jerk and norm_throttle are 0 in every segment.
C7_ConstantMetricIsZero ==
    Fused =>
      /\ \A m \in DOMAIN NormOf :
           SameEverywhere(Column(metrics_df, m))
              => AllZero(Column(cli_df.value, NormOf[m]))
      /\ (df # <<>> /\ \A i, j \in DOMAIN df : df[i].throttle = df[j].throttle)
           => /\ AllZero(Column(metrics_df, "throttle_jerk"))
              /\ AllZero(Column(cli_df.value, "norm_throttle"))

\* A lap of four samples with the throttle at 50 throughout, cut into two
\* segments or more, run to the end.
C7_Witness ==
    /\ pc = "done"
    /\ Len(df) >= 4
    /\ \A i \in DOMAIN df : df[i].throttle = 50
    /\ Len(metrics_df) >= 2
    /\ AllZero(Column(cli_df.value, "norm_throttle"))

\* The CLI of the segments whose id is within 1 of the id of row i.
IdWindow(fused, i) ==
    Column(SelectSeq(fused, LAMBDA r : r.segment_id \in (fused[i].segment_id - 1)
                                                     ..(fused[i].segment_id + 1)),
           "CLI")

\* C8: CLI_smooth of the segment with id s is the mean of CLI over the
\* segments of the table with ids s-1..s+1, and is a number.  Stated for the
\* laps cut into one segment or more whose every CLI is a number.
C8_SmoothIsMeanOverIdWindow ==
    (/\ Fused
     /\ num_segments >= 1
     /\ \A i \in DOMAIN cli_df.value : IsNumber(cli_df.value[i].CLI))
    => \A i \in DOMAIN cli_df.value :
          /\ IsNumber(cli_df.value[i].CLI_smooth)
          /\ cli_df.value[i].CLI_smooth = SeriesMean(IdWindow(cli_df.value, i))

(***************************************************************************)
(* Properties of compute_insights (SpecCli, SpecPipeline).                 *)
(***************************************************************************)
\* The weights as the specification states them, and as the dict holds them.
StatedWeight ==
    [steering_entropy |-> Rat(4, 10), throttle_jerk |-> Rat(3, 10),
     brake_panic |-> Rat(2, 10), lat_instability |-> Rat(1, 10),
     long_jerk |-> Rat(1, 10)]

DictWeight == [StatedWeight EXCEPT !.long_jerk = Num(0)]

\* The value of metric m in segment i on the 0-1 scale of the comparison:
\* min-max over the segments, 0 for a metric that does not vary.
CauseNorm(m, i) ==
    LET series == Column(cli_df.value, m)
    IN  IF RLt(SeriesMin(series), SeriesMax(series)) THEN MinMax(series, i) ELSE Num(0)

\* The first metric, in the order of the list, whose weighted value is a
\* number and is not below any other; "Unknown" if none is a number.
LargestFirst(w, i) ==
    LET val == AsList([k \in DOMAIN CauseMetrics |->
                         RMul(CauseNorm(CauseMetrics[k], i), w[CauseMetrics[k]])])
        best == {k \in DOMAIN val :
                    /\ IsNumber(val[k])
                    /\ \A j \in DOMAIN val : IsNumber(val[j]) => RLe(val[j], val[k])}
    IN  IF best = {} THEN "Unknown"
        ELSE CauseMetrics[CHOOSE k \in best : \A j \in best : k <= j]

HighLoad(fused) ==
    {i \in DOMAIN fused :
        RLe(Quantile80(Column(fused, "CLI_smooth")), fused[i].CLI_smooth)}

CauseCount(l) ==
    Cardinality({i \in HighLoad(cli_df.value) : results.value.primary_cause[i] = l})

\* C10: compute_insights reports as common cause the most frequent Primary
\* Cause among the segments whose CLI_smooth is at or above the 80th
\* percentile (the first of the most frequent ones), and "N/A" exactly when
\* no segment is at or above it.  Stated for the laps cut into one segment
\* or more.
C10_CommonCauseOfHighLoad ==
    (results # None /\ num_segments >= 1) =>
       /\ results.ok
       /\ IF HighLoad(cli_df.value) = {}
          THEN results.value.common_cause = "N/A"
          ELSE \E k \in DOMAIN SortedLabels :
                  /\ results.value.common_cause = SortedLabels[k]
                  /\ CauseCount(SortedLabels[k]) > 0
                  /\ \A j \in DOMAIN SortedLabels :
                        CauseCount(SortedLabels[j]) <= CauseCount(SortedLabels[k])
                  /\ \A j \in 1..(k - 1) :
                        CauseCount(SortedLabels[j]) < CauseCount(SortedLabels[k])

(***************************************************************************)
(* Properties of the loader (SpecLoad).                                    *)
(***************************************************************************)
Matches(row) == row.vehicle_id = request.vehicle_id /\ row.lap = request.lap

\* C3: when no row read from the source has the requested vehicle_id and
\* lap, process_lap_data raises an error that names both, returns no table,
\* and has run neither the pivot nor any later transformation.
C3_NoMatchRaises ==
    (/\ request # None
     /\ request.op = "process_lap_data"
     /\ Parses(telemetry_file)
     /\ \A i \in DOMAIN DataRows(telemetry_file) : ~Matches(DataRows(telemetry_file)[i]))
    => /\ ~reply.ok
       /\ reply.result = Raised([type |-> "ValueError",
                                 vehicle_id |-> request.vehicle_id,
                                 lap |-> request.lap])
       /\ reply.stages = <<"filter">>

\* A source read in two chunks, holding the requested vehicle on another lap
\* and another vehicle.
C3_Witness ==
    /\ request # None
    /\ request.op = "process_lap_data"
    /\ Parses(telemetry_file)
    /\ Len(Chunks(DataRows(telemetry_file))) >= 2
    /\ \E i, j \in DOMAIN DataRows(telemetry_file) :
          /\ DataRows(telemetry_file)[i].vehicle_id = request.vehicle_id
          /\ DataRows(telemetry_file)[j].vehicle_id # request.vehicle_id
    /\ ~reply.ok
    /\ reply.result.error.type = "ValueError"

\* C4: a missing or unreadable source makes each of get_available_vehicles,
\* get_available_laps and process_lap_data raise; none returns a result.
C4_MissingSourceRaises ==
    (request # None /\ telemetry_file.state # "present") => ~reply.ok

(***************************************************************************)
(* Properties of compute_segment_metrics (SpecPipeline, SpecBrake).        *)
(***************************************************************************)
SegmentIdsOf(table) == {table[i].segment_id : i \in DOMAIN table}

\* C11: compute_segment_metrics returns one row for each segment_id that
\* occurs in the segmented table, in ascending order of segment_id, and no
\* row for an id that no sample carries.
C11_OneRowPerSegmentPresent ==
    pc \in {"metrics", "fused", "merged", "done"} =>
       /\ SegmentIdsOf(metrics_df) = SegmentIdsOf(df_segmented.value)
       /\ Len(metrics_df) = Cardinality(SegmentIdsOf(df_segmented.value))
       /\ \A i, j \in DOMAIN metrics_df :
             i < j => metrics_df[i].segment_id < metrics_df[j].segment_id

\* A lap cut into three segments or more of which an inner one holds no
\* sample, while its two neighbours hold samples.
C11_Witness ==
    /\ pc = "metrics"
    /\ num_segments >= 3
    /\ \E s \in 1..(num_segments - 2) :
          /\ s \notin SegmentIdsOf(df_segmented.value)
          /\ s - 1 \in SegmentIdsOf(metrics_df)
          /\ s + 1 \in SegmentIdsOf(metrics_df)
    /\ Len(df_segmented.value) > Len(metrics_df)

\* The samples of the segment of row k of the metrics table.
GroupAt(k) ==
    SelectSeq(df_segmented.value, LAMBDA r : r.segment_id = metrics_df[k].segment_id)

\* The positions of a segment at which the brake pressure rises.
Rises(g) == {i \in 2..Len(g) : g[i].brake_pressure > g[i - 1].brake_pressure}

RECURSIVE SumOfRises(_, _)
SumOfRises(g, at) ==
    IF at = {} THEN 0
    ELSE LET i == CHOOSE x \in at : TRUE
         IN  (g[i].brake_pressure - g[i - 1].brake_pressure) + SumOfRises(g, at \ {i})

\* C12: brake_panic of a segment is the mean of the rises of the brake
\* pressure between consecutive samples of that segment (its first sample
\* has no predecessor), and 0 when the pressure never rises; in particular
\* it is 0 for a segment whose pressure falls from every sample to the next.
C12_BrakePanicIsMeanRise ==
    pc = "metrics" =>
       \A k \in DOMAIN metrics_df :
          LET g == GroupAt(k)
              at == Rises(g)
          IN  /\ at = {} => metrics_df[k].brake_panic = Num(0)
              /\ at # {} => metrics_df[k].brake_panic
                               = Rat(SumOfRises(g, at), Cardinality(at))
              /\ (\A i \in 2..Len(g) : g[i].brake_pressure < g[i - 1].brake_pressure)
                    => metrics_df[k].brake_panic = Num(0)

\* Two segments: in the first the pressure rises, in the second it starts
\* above the last sample of the first and falls.
C12_Witness ==
    /\ pc = "metrics"
    /\ Len(metrics_df) = 2
    /\ LET g == GroupAt(1)
           h == GroupAt(2)
       IN  /\ Len(g) >= 2
           /\ Rises(g) # {}
           /\ Len(h) >= 2
           /\ h[1].brake_pressure > g[Len(g)].brake_pressure
           /\ \A i \in 2..Len(h) : h[i].brake_pressure < h[i - 1].brake_pressure
           /\ RLt(Num(0), metrics_df[1].brake_panic)
           /\ metrics_df[2].brake_panic = Num(0)

SamplesIn(table, k) == Cardinality({i \in DOMAIN table : table[i].segment_id = k})

TheScenario == /\ pc = "segmented"
               /\ Len(df) = 120
               /\ num_segments = 60

\* C14, as the code behaves: the synthetic lap of 120 samples with lap
\* distance linear from 0 to 1200, segmented with N = 60, has exactly 2
\* samples in every segment 0..59 (120 samples over 60 segments), and the
\* final sample is in segment 59.
C14_TwoSamplesPerSegment ==
    TheScenario =>
        /\ df_segmented.ok
        /\ \A k \in 0..59 : SamplesIn(df_segmented.value, k) = 2
        /\ df_segmented.value[120].segment_id = 59
        /\ df_segmented.value[120].Laptrigger_lapdist_dls = 1200 * 119

\* C14, as stated: the same lap has exactly 20 samples in every segment, and
\* the final sample is in segment 59.
C14_TwentySamplesPerSegment ==
    TheScenario =>
        /\ df_segmented.ok
        /\ \A k \in 0..59 : SamplesIn(df_segmented.value, k) = 20
        /\ df_segmented.value[120].segment_id = 59

\* The scenario has been segmented; the final sample floor-divides to 60 and
\* is clipped into segment 59, next to the sample before it.
C14_Witness ==
    /\ TheScenario
    /\ df_segmented.ok
    /\ FloorDivide(df[120].Laptrigger_lapdist_dls, MaxDistOf(df), 60, fl_err) = 60
    /\ df_segmented.value[120].segment_id = 59
    /\ df_segmented.value[119].segment_id = 59
    /\ df_segmented.value[118].segment_id = 58

(***************************************************************************)
(* Properties of the stored results over reruns (SpecApp).                 *)
(***************************************************************************)
SessionKeys == {"final_df", "metrics_df", "last_config"}

\* What one uninterrupted run computes for a selection when the segment
\* length rounds as err says: the two tables, or None when a stage raises.
FromScratch(config, err) ==
    LET loaded == load_session(config.telemetry, config.vehicle_id, config.lap)
    IN  IF ~loaded.ok THEN None
        ELSE IF err \notin RoundingOutcomes(
                              IF loaded.value = <<>> THEN 0 ELSE MaxDistOf(loaded.value),
                              config.segments)
        THEN None
        ELSE LET segmented == segment_lap(loaded.value, config.segments, err)
             IN  IF ~segmented.ok THEN None
                 ELSE LET fused == compute_cli(compute_segment_metrics(segmented.value))
                      IN  IF ~fused.ok THEN None
                          ELSE [final_df |-> MergeOnSegment(segmented.value, fused.value),
                                metrics_df |-> fused.value]

\* The session holds nothing, or the three results of one run.
Whole(state) ==
    \/ DOMAIN state = {}
    \/ /\ DOMAIN state = SessionKeys
       /\ \E err \in {0, 1} :
             FromScratch(state["last_config"], err)
                = [final_df |-> state["final_df"], metrics_df |-> state["metrics_df"]]

\* C15: a request fails atomically.  In every reachable state the session
\* holds either nothing or final_df, metrics_df and last_config of one and
\* the same complete run; a step that ends a run by an exception or by
\* st.stop() leaves the session as it was; and the session changes only in
\* the step after the merge, when load, segment, metrics and fuse have all
\* succeeded, and then all three entries are written from that run.
C15_RequestFailsAtomically ==
    /\ [](Whole(session_state))
    /\ [][/\ pc' \in {"failed", "stopped"} => session_state' = session_state
          /\ session_state' # session_state =>
                /\ pc = "merged"
                /\ df_segmented.ok
                /\ cli_df.ok
                /\ DOMAIN session_state' = SessionKeys
                /\ session_state'["final_df"] = final_df
                /\ session_state'["metrics_df"] = cli_df.value
                /\ session_state'["last_config"] = current_config]_vars

\* A run for a new selection has failed in segment_lap or compute_cli while
\* the session holds the whole result of an earlier selection.
C15_Witness ==
    /\ pc = "failed"
    /\ DOMAIN session_state = SessionKeys
    /\ session_state["last_config"] # current_config
    /\ session_state["final_df"] # <<>>

\* C16: whenever the page shows results, last_config is the current
\* selection (vehicle, lap, segment count, telemetry file) and the final_df
\* and metrics_df shown are what one run from scratch computes for that
\* selection.
C16_RenderedResultsAreCurrent ==
    reply.page = "results" =>
        /\ Get(session_state, "last_config") = current_config
        /\ \E err \in {0, 1} :
              FromScratch(current_config, err)
                 = [final_df |-> reply.final_df, metrics_df |-> reply.metrics_df]

\* Results are shown by a rerun that computed nothing: they were stored by an
\* earlier run, and the button was not pressed.
C16_Witness ==
    /\ reply.page = "results"
    /\ df_segmented = None
    /\ ~request.run_requested
    /\ session_state["last_config"] = current_config

Next == NextPipeline \/ NextCli \/ NextLoad

Spec == (InitPipeline \/ InitCli \/ InitLoad) /\ [][Next]_vars

====
